---- MODULE Spec2Model ----
(***************************************************************************)
(* Reaction-diffusion (Turing pattern) simulation of                       *)
(* notebooks/chapter12_deterministic/04_turing.ipynb.                      *)
(*                                                                         *)
(* The notebook's floating-point numbers are modelled as exact rationals   *)
(* <<numerator, denominator>> in lowest terms with a positive denominator. *)
(* Arrays are 0-based functions Z[row][col], indexed as numpy indexes      *)
(* them; slices and negative indices are resolved as Python resolves them. *)
(***************************************************************************)
EXTENDS Integers, FiniteSets, Sequences, TLC

\* ------------------------------------------------------------------ bounds
\* Largest grid size drawn for the generic runs.
MaxSize == 4
\* Largest initial cell value drawn for the random fields.
MaxVal == 1
\* Longest run (loop iterations) explored from arbitrary initial fields.
MaxSteps == 1
\* Longest run explored from the all-zero fields with k = 0.
MaxLongSteps == 3
\* Total times T are drawn from -1/10, 0, 1/10, ..., MaxT/10.
MaxT == 20

\* ---------------------------------------------------- evaluated arguments
\* F applied to the values of its arguments: Python evaluates an argument
\* once, before the call.
Val1(F(_), x) == CHOOSE r \in {F(v) : v \in {x}} : TRUE

Val2(F(_, _), x, y) == CHOOSE r \in {F(v, w) : v \in {x}, w \in {y}} : TRUE

\* ------------------------------------------------- exact rational numbers
Abs(x) == IF x < 0 THEN -x ELSE x

Min(x, y) == IF x < y THEN x ELSE y

Max(x, y) == IF x < y THEN y ELSE x

\* Euclid's algorithm on naturals.
Euclid[x \in Nat, y \in Nat] == IF y = 0 THEN x ELSE Euclid[y, x % y]

GCD(x, y) == Euclid[x, y]

\* The rational p/q (q # 0) in lowest terms, denominator positive.
Rat(p, q) ==
  Val2(LAMBDA u, v :
         LET g == GCD(Abs(u), Abs(v))
             s == IF v < 0 THEN -1 ELSE 1
         IN  <<(s * u) \div g, (s * v) \div g>>,
       p, q)

IntR(x) == <<x, 1>>

Zero == IntR(0)

RAdd(x, y) ==
  Val2(LAMBDA u, v :
         LET g == GCD(u[2], v[2])
         IN  Rat(u[1] * (v[2] \div g) + v[1] * (u[2] \div g), (u[2] \div g) * v[2]),
       x, y)

RNeg(x) == Val1(LAMBDA u : <<-u[1], u[2]>>, x)

RSub(x, y) == RAdd(x, RNeg(y))

RMul(x, y) ==
  Val2(LAMBDA u, v :
         LET g1 == GCD(Abs(u[1]), v[2])
             g2 == GCD(Abs(v[1]), u[2])
         IN  Rat((u[1] \div g1) * (v[1] \div g2), (u[2] \div g2) * (v[2] \div g1)),
       x, y)

\* x / y for y # 0.
RDiv(x, y) == Val2(LAMBDA u, v : RMul(u, Rat(v[2], v[1])), x, y)

\* x ** 3
RCube(x) == Val1(LAMBDA u : <<u[1] * u[1] * u[1], u[2] * u[2] * u[2]>>, x)

RLeq(x, y) == RSub(x, y)[1] <= 0

RLess(x, y) == RSub(x, y)[1] < 0

\* Python's int(): truncation toward zero.
RTrunc(x) ==
  Val1(LAMBDA u : IF u[1] >= 0 THEN u[1] \div u[2] ELSE -((-u[1]) \div u[2]), x)

\* Mathematical floor.
RFloor(x) == Val1(LAMBDA u : u[1] \div u[2], x)

\* ------------------------------------------------------------ numpy arrays
\* Python slice start:stop on an axis of length len: negative bounds count
\* from the end, and both bounds are clipped to 0..len.
Clip(p, len) == IF p < 0 THEN Max(p + len, 0) ELSE Min(p, len)

\* Python index p on an axis of length len (valid iff the result is in 0..len-1).
PyIdx(p, len) == IF p < 0 THEN p + len ELSE p

\* Z[r0:r1, c0:c1] on a square array of side len; the result is re-based at 0.
Slice(Z, len, r0, r1, c0, c1) ==
  Val1(LAMBDA A :
         LET rlo == Clip(r0, len)
             rhi == Clip(r1, len)
             clo == Clip(c0, len)
             chi == Clip(c1, len)
         IN  [i \in 0..(rhi - rlo - 1) |->
               [j \in 0..(chi - clo - 1) |-> A[rlo + i][clo + j]]],
       Z)

\* Z[r0:r1, c0:c1] = W
SetSlice(Z, len, r0, r1, c0, c1, W) ==
  Val2(LAMBDA A, B :
         LET rlo == Clip(r0, len)
             rhi == Clip(r1, len)
             clo == Clip(c0, len)
             chi == Clip(c1, len)
         IN  [i \in DOMAIN A |-> [j \in DOMAIN A[i] |->
               IF i >= rlo /\ i < rhi /\ j >= clo /\ j < chi
               THEN B[i - rlo][j - clo] ELSE A[i][j]]],
       Z, W)

\* Z[dst,:] = Z[src,:]
CopyRow(Z, len, dst, src) ==
  Val1(LAMBDA A :
         [i \in DOMAIN A |-> [j \in DOMAIN A[i] |->
            IF i = PyIdx(dst, len) THEN A[PyIdx(src, len)][j] ELSE A[i][j]]],
       Z)

\* Z[:,dst] = Z[:,src]
CopyCol(Z, len, dst, src) ==
  Val1(LAMBDA A :
         [i \in DOMAIN A |-> [j \in DOMAIN A[i] |->
            IF j = PyIdx(dst, len) THEN A[i][PyIdx(src, len)] ELSE A[i][j]]],
       Z)

\* Elementwise array arithmetic: X + Y, X - Y, X ** 3.
MAdd(X, Y) ==
  Val2(LAMBDA A, B : [i \in DOMAIN A |-> [j \in DOMAIN A[i] |-> RAdd(A[i][j], B[i][j])]],
       X, Y)

MSub(X, Y) ==
  Val2(LAMBDA A, B : [i \in DOMAIN A |-> [j \in DOMAIN A[i] |-> RSub(A[i][j], B[i][j])]],
       X, Y)

MCube(X) ==
  Val1(LAMBDA A : [i \in DOMAIN A |-> [j \in DOMAIN A[i] |-> RCube(A[i][j])]], X)

\* Array with a scalar: s * X, X + s, X / s.
MScale(s, X) ==
  Val2(LAMBDA c, A : [i \in DOMAIN A |-> [j \in DOMAIN A[i] |-> RMul(c, A[i][j])]],
       s, X)

MPlus(X, s) ==
  Val2(LAMBDA A, c : [i \in DOMAIN A |-> [j \in DOMAIN A[i] |-> RAdd(A[i][j], c)]],
       X, s)

MOver(X, s) ==
  Val2(LAMBDA A, c : [i \in DOMAIN A |-> [j \in DOMAIN A[i] |-> RDiv(A[i][j], c)]],
       X, s)

\* ------------------------------------------------------------ the program
VARIABLES a, b, tau, k, size, T, dx, dt, n, U, V, deltaU, deltaV, iter, pc

vars == <<a, b, tau, k, size, T, dx, dt, n, U, V, deltaU, deltaV, iter, pc>>

\* Variant: the half-width over the size, dx = 1./size.
SpaceStepHalfWidth(sz) == RDiv(IntR(1), IntR(sz))

\* dx = 2./size
SpaceStep(sz) == RDiv(IntR(2), IntR(sz))

\* Variant: the square is missing, dt = .9 * dx/2.
TimeStepNoSquare(h) == RDiv(RMul(Rat(9, 10), h), IntR(2))

\* dt = .9 * dx**2/2
TimeStep(h) == RDiv(RMul(Rat(9, 10), RMul(h, h)), IntR(2))

\* Variant: one iteration too many, n = int(T/dt) + 1.
StepCountInclusive(total, step) == RTrunc(RDiv(total, step)) + 1

\* n = int(T/dt)
StepCount(total, step) == RTrunc(RDiv(total, step))

\* Variant: the top neighbours are read one column to the left, Z[0:-2,0:-2].
laplacianShifted(Z, len, h) ==
  LET Ztop    == Slice(Z, len, 0, -2, 0, -2)
      Zleft   == Slice(Z, len, 1, -1, 0, -2)
      Zbottom == Slice(Z, len, 2, len, 1, -1)
      Zright  == Slice(Z, len, 1, -1, 2, len)
      Zcenter == Slice(Z, len, 1, -1, 1, -1)
  IN  MOver(MSub(MAdd(MAdd(MAdd(Ztop, Zleft), Zbottom), Zright),
                 MScale(IntR(4), Zcenter)),
            RMul(h, h))

\* def laplacian(Z), reading the global dx (h).
laplacian(Z, len, h) ==
  LET Ztop    == Slice(Z, len, 0, -2, 1, -1)
      Zleft   == Slice(Z, len, 1, -1, 0, -2)
      Zbottom == Slice(Z, len, 2, len, 1, -1)
      Zright  == Slice(Z, len, 1, -1, 2, len)
      Zcenter == Slice(Z, len, 1, -1, 1, -1)
  IN  MOver(MSub(MAdd(MAdd(MAdd(Ztop, Zleft), Zbottom), Zright),
                 MScale(IntR(4), Zcenter)),
            RMul(h, h))

\* Variant: two assignments in sequence, so that V reads the U just written.
UpdateSequential(Uo, Vo, dU, dV, len, pa, pb, ptau, pk, step) ==
  LET Uc   == Slice(Uo, len, 1, -1, 1, -1)
      Vc   == Slice(Vo, len, 1, -1, 1, -1)
      rhsU == MAdd(Uc, MScale(step,
                 MPlus(MSub(MSub(MAdd(MScale(pa, dU), Uc), MCube(Uc)), Vc), pk)))
      rhsV == MAdd(Vc, MOver(MScale(step,
                 MSub(MAdd(MScale(pb, dV), rhsU), Vc)), ptau))
  IN  <<SetSlice(Uo, len, 1, -1, 1, -1, rhsU), SetSlice(Vo, len, 1, -1, 1, -1, rhsV)>>

\* Variant: tau is added where k belongs in the equation of U.
UpdateAddsTau(Uo, Vo, dU, dV, len, pa, pb, ptau, pk, step) ==
  LET Uc   == Slice(Uo, len, 1, -1, 1, -1)
      Vc   == Slice(Vo, len, 1, -1, 1, -1)
      rhsU == MAdd(Uc, MScale(step,
                 MPlus(MSub(MSub(MAdd(MScale(pa, dU), Uc), MCube(Uc)), Vc), ptau)))
      rhsV == MAdd(Vc, MOver(MScale(step,
                 MSub(MAdd(MScale(pb, dV), Uc), Vc)), ptau))
  IN  <<SetSlice(Uo, len, 1, -1, 1, -1, rhsU), SetSlice(Vo, len, 1, -1, 1, -1, rhsV)>>

\* The tuple assignment to U[1:-1,1:-1], V[1:-1,1:-1]: the right-hand tuple is
\* built from the views Uc, Vc first, and only then are both targets written.
Update(Uo, Vo, dU, dV, len, pa, pb, ptau, pk, step) ==
  LET Uc   == Slice(Uo, len, 1, -1, 1, -1)
      Vc   == Slice(Vo, len, 1, -1, 1, -1)
      rhsU == MAdd(Uc, MScale(step,
                 MPlus(MSub(MSub(MAdd(MScale(pa, dU), Uc), MCube(Uc)), Vc), pk)))
      rhsV == MAdd(Vc, MOver(MScale(step,
                 MSub(MAdd(MScale(pb, dV), Uc), Vc)), ptau))
  IN  <<SetSlice(Uo, len, 1, -1, 1, -1, rhsU), SetSlice(Vo, len, 1, -1, 1, -1, rhsV)>>

\* Variant: the column copies read the array as it was before the row copies.
NeumannFromOriginal(Z, len) ==
  LET Z1 == CopyRow(Z, len, 0, 1)
      Z2 == CopyRow(Z1, len, -1, -2)
      Y1 == CopyCol(Z, len, 0, 1)
      Y2 == CopyCol(Y1, len, -1, -2)
  IN  [i \in DOMAIN Z |-> [j \in DOMAIN Z[i] |->
        IF j = PyIdx(0, len) \/ j = PyIdx(-1, len) THEN Y2[i][j] ELSE Z2[i][j]]]

\* Variant: the top row wraps around, Z[0,:] = Z[-1,:].
NeumannWrapTop(Z, len) ==
  LET Z1 == CopyRow(Z, len, 0, -1)
      Z2 == CopyRow(Z1, len, -1, -2)
      Z3 == CopyCol(Z2, len, 0, 1)
  IN  CopyCol(Z3, len, -1, -2)

\* Variant: the copies go inward, Z[1,:] = Z[0,:] and so on.
NeumannInward(Z, len) ==
  LET Z1 == CopyRow(Z, len, 1, 0)
      Z2 == CopyRow(Z1, len, -2, -1)
      Z3 == CopyCol(Z2, len, 1, 0)
  IN  CopyCol(Z3, len, -2, -1)

\* The four edge copies of the Neumann loop body, in the order written.
Neumann(Z, len) ==
  LET Z1 == CopyRow(Z, len, 0, 1)
      Z2 == CopyRow(Z1, len, -1, -2)
      Z3 == CopyCol(Z2, len, 0, 1)
  IN  CopyCol(Z3, len, -1, -2)

\* Z[1,:] and Z[-2,:] exist (otherwise numpy raises IndexError).
EdgeIndicesValid(len) == PyIdx(1, len) \in 0..(len - 1) /\ PyIdx(-2, len) \in 0..(len - 1)

\* for i in range(n): the next position given the iterations already run.
LoopHead(done, count) == IF done < count THEN "laplacian" ELSE "done"

\* ------------------------------------------------------------ the inputs
Const(len, c) == [i \in 0..(len - 1) |-> [j \in 0..(len - 1) |-> IntR(c)]]

Spike(len, r, c, v) ==
  [i \in 0..(len - 1) |-> [j \in 0..(len - 1) |-> IF i = r /\ j = c THEN IntR(v) ELSE Zero]]

ConstFields(len) == {Const(len, c) : c \in 0..MaxVal}

SpikeFields(len) ==
  {Spike(len, r, c, v) : r \in 0..(len - 1), c \in 0..(len - 1), v \in 1..MaxVal}

\* Outcomes of the two np.random.rand(size, size) draws that are explored: one
\* field arbitrary among the constant and single-spike fields and the other
\* constant, or a spike in U and a spike at the transposed cell in V.
FieldPairs(len) ==
  ((ConstFields(len) \cup SpikeFields(len)) \X ConstFields(len))
    \cup (ConstFields(len) \X (ConstFields(len) \cup SpikeFields(len)))
    \cup {<<Spike(len, r, c, v), Spike(len, c, r, v)>> :
            r \in 0..(len - 1), c \in 0..(len - 1), v \in 1..MaxVal}

\* Parameter sets <<a, b, tau, k>>; the last two break the a > 0 and tau > 0
\* requirements of the configuration interface.
ParamSets ==
  { <<Rat(4, 9), Rat(4, 9), IntR(1), Zero>>,
    <<Rat(4, 9), Rat(8, 9), IntR(2), IntR(-1)>>,
    <<Rat(-4, 9), Rat(4, 9), IntR(1), Zero>>,
    <<Rat(4, 9), Rat(4, 9), IntR(-1), Zero>> }

\* The notebook's own parameter values.
RefParams == <<Rat(7, 25000), Rat(1, 200), Rat(1, 10), Rat(-1, 200)>>

TimeSet == {Rat(j, 10) : j \in -1..MaxT}

\* Iterations a configuration will run (0 when dx cannot be derived).
RunLength(sz, total) ==
  IF sz = 0 THEN 0 ELSE StepCount(total, TimeStep(SpaceStep(sz)))

\* Configurations <<params, size, T>>: the generic ones, and the concrete
\* scenario gridSize = 10, totalTime = 0.01 with the notebook's parameters.
Configs ==
  { c \in ParamSets \X (0..MaxSize) \X TimeSet :
      \/ RunLength(c[2], c[3]) <= MaxSteps
      \/ c[1][4] = Zero /\ RunLength(c[2], c[3]) <= MaxLongSteps }
    \cup {<<RefParams, 10, Rat(1, 100)>>}

\* Runs longer than MaxSteps start from the all-zero fields only.
InitialFields(len, count) ==
  IF count <= MaxSteps THEN FieldPairs(len) ELSE {<<Const(len, 0), Const(len, 0)>>}

\* ------------------------------------------------------------ the actions
Init ==
  /\ \E c \in Configs :
       /\ a = c[1][1]
       /\ b = c[1][2]
       /\ tau = c[1][3]
       /\ k = c[1][4]
       /\ size = c[2]
       /\ T = c[3]
  /\ dx = Zero
  /\ dt = Zero
  /\ n = 0
  /\ U = << >>
  /\ V = << >>
  /\ deltaU = << >>
  /\ deltaV = << >>
  /\ iter = 0
  /\ pc = "derive"

\* dx = 2./size ; dt = .9 * dx**2/2 ; n = int(T/dt)
Derive ==
  /\ pc = "derive"
  /\ IF size = 0
     THEN /\ pc' = "ZeroDivisionError"
          /\ UNCHANGED <<dx, dt, n>>
     ELSE /\ dx' = SpaceStep(size)
          /\ dt' = TimeStep(dx')
          /\ n' = StepCount(T, dt')
          /\ pc' = "fields"
  /\ UNCHANGED <<a, b, tau, k, size, T, U, V, deltaU, deltaV, iter>>

\* U = np.random.rand(size, size) ; V = np.random.rand(size, size)
DrawFields ==
  /\ pc = "fields"
  /\ \E f \in InitialFields(size, n) :
       /\ U' = f[1]
       /\ V' = f[2]
  /\ pc' = LoopHead(0, n)
  /\ UNCHANGED <<a, b, tau, k, size, T, dx, dt, n, deltaU, deltaV, iter>>

\* deltaU = laplacian(U) ; deltaV = laplacian(V)
ComputeLaplacians ==
  /\ pc = "laplacian"
  /\ deltaU' = laplacian(U, size, dx)
  /\ deltaV' = laplacian(V, size, dx)
  /\ pc' = "update"
  /\ UNCHANGED <<a, b, tau, k, size, T, dx, dt, n, U, V, iter>>

\* U[1:-1,1:-1], V[1:-1,1:-1] = ..., ...
UpdateInterior ==
  /\ pc = "update"
  /\ LET new == Update(U, V, deltaU, deltaV, size, a, b, tau, k, dt)
     IN  /\ U' = new[1]
         /\ V' = new[2]
  /\ pc' = "neumann"
  /\ UNCHANGED <<a, b, tau, k, size, T, dx, dt, n, deltaU, deltaV, iter>>

\* for Z in (U, V): the four edge copies; then the next turn of the loop.
EnforceNeumann ==
  /\ pc = "neumann"
  /\ IF EdgeIndicesValid(size)
     THEN /\ U' = Neumann(U, size)
          /\ V' = Neumann(V, size)
          /\ iter' = iter + 1
          /\ pc' = LoopHead(iter + 1, n)
     ELSE /\ pc' = "IndexError"
          /\ UNCHANGED <<U, V, iter>>
  /\ UNCHANGED <<a, b, tau, k, size, T, dx, dt, n, deltaU, deltaV>>

Next ==
  \/ Derive
  \/ DrawFields
  \/ ComputeLaplacians
  \/ UpdateInterior
  \/ EnforceNeumann

Spec == Init /\ [][Next]_vars

\* The notebook's cells run one after the other without interruption.
FairSpec == Spec /\ WF_vars(Next)

\* =================================================================
\* Properties
\* =================================================================
Interior(len) == 1..(len - 2)

Cells(len) == 0..(len - 1)

InLoop == pc \in {"laplacian", "update", "neumann"}

HasFields == pc \in {"laplacian", "update", "neumann", "done", "IndexError"}

\* The five-point stencil at cell (i, j), written cell by cell.
FivePoint(Z, i, j, h) ==
  RDiv(RSub(RAdd(RAdd(RAdd(Z[i - 1][j], Z[i][j - 1]), Z[i + 1][j]), Z[i][j + 1]),
            RMul(IntR(4), Z[i][j])),
       RMul(h, h))

\* C1: in every step, every interior cell of U and of V is computed from the
\* values U and V held before the step (V never reads the U written in the
\* same step), by the two update formulas of the reaction-diffusion system.
SimultaneousUpdate ==
  [][(pc = "update" /\ size >= 3) =>
       \A i \in Interior(size), j \in Interior(size) :
         /\ U'[i][j] = RAdd(U[i][j], RMul(dt,
               RAdd(RSub(RSub(RAdd(RMul(a, FivePoint(U, i, j, dx)), U[i][j]),
                              RCube(U[i][j])), V[i][j]), k)))
         /\ V'[i][j] = RAdd(V[i][j], RDiv(RMul(dt,
               RSub(RAdd(RMul(b, FivePoint(V, i, j, dx)), U[i][j]), V[i][j])), tau))]_vars

\* An update has just run on a field whose Laplacian is not zero and whose U
\* and V differ, so that reading the new U instead of the old one would show.
SimultaneousUpdateWitness ==
  /\ pc = "neumann"
  /\ size >= 4
  /\ \E i \in Interior(size), j \in Interior(size) :
       deltaU[i - 1][j - 1] # Zero /\ U[i][j] # V[i][j]

\* C2: at the end of every loop iteration, for size >= 3, the four Neumann
\* equalities hold in U and in V for every index, corners included, and each
\* corner holds the value of its diagonally adjacent interior cell.
NeumannHolds(Z, len) ==
  /\ \A j \in Cells(len) : Z[0][j] = Z[1][j] /\ Z[len - 1][j] = Z[len - 2][j]
  /\ \A i \in Cells(len) : Z[i][0] = Z[i][1] /\ Z[i][len - 1] = Z[i][len - 2]
  /\ Z[0][0] = Z[1][1]
  /\ Z[0][len - 1] = Z[1][len - 2]
  /\ Z[len - 1][0] = Z[len - 2][1]
  /\ Z[len - 1][len - 1] = Z[len - 2][len - 2]

NeumannAfterEachIteration ==
  (pc \in {"laplacian", "done"} /\ iter >= 1 /\ size >= 3) =>
    (NeumannHolds(U, size) /\ NeumannHolds(V, size))

\* An iteration has ended on a field that is not constant.
NeumannAfterEachIterationWitness ==
  /\ pc \in {"laplacian", "done"}
  /\ iter >= 1
  /\ size >= 4
  /\ U[1][1] # U[2][2]
  /\ U[0][0] # Zero

\* C4: for size >= 3, laplacian(Z) is an (size-2) x (size-2) array holding at
\* [i-1][j-1] the five-point stencil of interior cell (i, j) over dx^2.
LaplacianIsFivePoint(L, Z, len, h) ==
  /\ DOMAIN L = 0..(len - 3)
  /\ \A r \in DOMAIN L : DOMAIN L[r] = 0..(len - 3)
  /\ \A i \in Interior(len), j \in Interior(len) :
       L[i - 1][j - 1] = FivePoint(Z, i, j, h)

LaplacianCorrect ==
  (pc = "update" /\ size >= 3) =>
    (LaplacianIsFivePoint(deltaU, U, size, dx) /\ LaplacianIsFivePoint(deltaV, V, size, dx))

\* The Laplacian of a field with a spike has just been computed and takes
\* different values at different interior cells.
LaplacianCorrectWitness ==
  /\ pc = "update"
  /\ size >= 4
  /\ deltaU[0][0] # deltaU[1][1]
  /\ deltaU[0][1] # Zero

\* C5: for any field of size >= 3, enforcing the boundary a second time
\* changes no cell.
BoundaryIdempotent ==
  (HasFields /\ size >= 3) =>
    /\ Neumann(Neumann(U, size), size) = Neumann(U, size)
    /\ Neumann(Neumann(V, size), size) = Neumann(V, size)

\* A field whose edges the first enforcement does change.
BoundaryIdempotentWitness ==
  /\ pc = "neumann"
  /\ size >= 4
  /\ Neumann(U, size) # U
  /\ Neumann(V, size) # V

\* C3 as stated: with a = b > 0 and k = 0 (and a valid tau > 0), a state with
\* U = V = c at every cell, for any constant c, is left unchanged by every step.
HomogeneousFixedPoint ==
  [][(InLoop /\ a = b /\ RLess(Zero, a) /\ RLess(Zero, tau) /\ k = Zero
        /\ U = V /\ \E c \in 0..MaxVal : U = Const(size, c))
       => (U' = U /\ V' = V)]_vars

\* C3 as amended: with a = b > 0, tau > 0 and k = 0, the state U = V = 0 at
\* every cell is left unchanged by every step.
ZeroFixedPoint ==
  [][(InLoop /\ a = b /\ RLess(Zero, a) /\ RLess(Zero, tau) /\ k = Zero
        /\ U = V /\ U = Const(size, 0))
       => (U' = U /\ V' = V)]_vars

\* A run of several iterations from the all-zero fields has finished.
ZeroFixedPointWitness ==
  /\ pc = "done"
  /\ iter >= 2
  /\ size >= 3
  /\ a = b /\ RLess(Zero, a) /\ RLess(Zero, tau) /\ k = Zero
  /\ U = Const(size, 0)
  /\ V = Const(size, 0)

\* The parameter requirements of the configuration interface.
ValidParameters ==
  /\ RLess(Zero, a)
  /\ RLess(Zero, b)
  /\ RLess(Zero, tau)
  /\ size >= 3
  /\ RLess(Zero, T)

\* C6: with an invalid parameter the program is stopped with InvalidParameter
\* while it is configured, so that it never completes a loop iteration (and
\* never writes U or V in one).
InvalidParameterRejected ==
  ~ValidParameters => iter = 0

\* C7: for valid size and total time the loop ends after exactly
\* floor(T / dt) iterations whatever U and V hold; each iteration is one
\* Laplacian computation, then one interior update, then one boundary
\* enforcement.
ValidRun == size >= 3 /\ RLess(Zero, T)

Finished == pc = "done"

ExactStepCount ==
  /\ [](ValidRun =>
         /\ iter <= n
         /\ (HasFields => n = RFloor(RDiv(T, dt)))
         /\ (pc = "done" => iter = RFloor(RDiv(T, dt)))
         /\ pc \notin {"ZeroDivisionError", "IndexError"})
  /\ [][ValidRun =>
         /\ (pc = "laplacian" => pc' = "update" /\ iter' = iter)
         /\ (pc = "update" => pc' = "neumann" /\ iter' = iter)
         /\ (pc = "neumann" => iter' = iter + 1 /\ pc' \in {"laplacian", "done"})
         /\ (pc' = "done" => iter' = n)
         /\ (pc' = "laplacian" => iter' < n)]_vars
  /\ (ValidRun ~> Finished)

\* A run of at least two iterations with a total time that is not a multiple
\* of dt has finished.
ExactStepCountWitness ==
  /\ pc = "done"
  /\ size >= 3
  /\ iter >= 2
  /\ RMul(IntR(iter), dt) # T

\* C8: for size >= 3, dx = 2 / size, dt = 0.9 * dx^2 / 2 <= dx^2 / 2, and
\* neither changes once derived.
StabilityBound ==
  /\ [](size >= 3 /\ pc # "derive" =>
         /\ RMul(dx, IntR(size)) = IntR(2)
         /\ RMul(IntR(20), dt) = RMul(IntR(9), RMul(dx, dx))
         /\ RLeq(dt, RDiv(RMul(dx, dx), IntR(2))))
  /\ [][pc # "derive" => (dx' = dx /\ dt' = dt)]_vars

\* A run with iterations has finished with the derived steps in place.
StabilityBoundWitness ==
  /\ pc = "done"
  /\ size >= 3
  /\ iter >= 1
  /\ RLess(dt, RDiv(RMul(dx, dx), IntR(2)))

\* The concrete scenario: gridSize = 10, totalTime = 0.01 (domain half-width 1).
Scenario == size = 10 /\ T = Rat(1, 100)

\* C9 as stated: in the scenario the derived step count is 1 or 2.
ScenarioRunsOneOrTwoSteps ==
  (Scenario /\ pc # "derive") => n \in {1, 2}

\* C9 as amended: in the scenario dx = 1/5, dt = 9/500 and the derived step
\* count floor(T / dt) is 0, so the loop performs no step and the final U, V
\* are the initial fields.
ScenarioRunsNoStep ==
  (Scenario /\ pc # "derive") =>
    /\ dx = Rat(1, 5)
    /\ dt = Rat(9, 500)
    /\ n = 0
    /\ RFloor(RDiv(T, dt)) = 0
    /\ iter = 0
    /\ pc \in {"fields", "done"}
    /\ (pc = "done" => <<U, V>> \in FieldPairs(size))

\* The scenario has finished with a spike in U and zeros in V.
ScenarioRunsNoStepWitness ==
  /\ Scenario
  /\ pc = "done"
  /\ U = Spike(10, 5, 5, 1)
  /\ V = Const(10, 0)

\* C10: computing the Laplacians writes no cell of U or V; the interior
\* update writes interior cells only; the boundary enforcement writes edge
\* cells only; the grids stay size x size.
IsEdge(i, j, len) == i = 0 \/ j = 0 \/ i = len - 1 \/ j = len - 1

PhaseFrames ==
  [][HasFields =>
       /\ (pc = "laplacian" => (U' = U /\ V' = V))
       /\ (pc = "update" =>
             \A i \in Cells(size), j \in Cells(size) :
               IsEdge(i, j, size) => (U'[i][j] = U[i][j] /\ V'[i][j] = V[i][j]))
       /\ (pc = "neumann" =>
             \A i \in Cells(size), j \in Cells(size) :
               ~IsEdge(i, j, size) => (U'[i][j] = U[i][j] /\ V'[i][j] = V[i][j]))
       /\ DOMAIN U' = Cells(size) /\ DOMAIN V' = Cells(size)
       /\ \A i \in Cells(size) : DOMAIN U'[i] = Cells(size) /\ DOMAIN V'[i] = Cells(size)]_vars

\* An iteration has ended in which the update changed an interior cell and
\* the enforcement an edge cell.
PhaseFramesWitness ==
  /\ pc \in {"laplacian", "done"}
  /\ iter >= 1
  /\ size >= 4
  /\ U[1][1] # Zero
  /\ U[0][0] # Zero
  /\ U[2][2] # U[1][1]

====
